---- MODULE Spec2Model ----
(***************************************************************************)
(* Model of decompress_hirgc.cpp: the HIRGC reference-based decompressor.  *)
(* Characters are one-character strings, text lines are sequences of       *)
(* characters, std::vector<T> is a 1-indexed sequence (C++ index i is      *)
(* TLA+ index i + 1).                                                      *)
(***************************************************************************)
EXTENDS Integers, Sequences, FiniteSets, TLC

(***************************************************************************)
(* Bounds of the model.                                                    *)
(***************************************************************************)
MaxMismatches == 2      \* records of the edit script in the replay runs
MaxDelta == 1           \* largest start_delta / gap of an overlay range
MaxRangeLen == 1        \* largest length of an overlay range
MaxRanges == 2          \* ranges per RangeList, special characters per spec
MaxBodyLines == 3       \* lines of the edit-script body in the parser runs
MaxJump == 2            \* largest short offset_from_prev, forward or backward
MaxStart == 3           \* largest initial reference position
MaxRun == 1             \* largest continue_for / first_continue_for
RefRepeats == 9         \* repetitions of the pattern a reference is made of

(***************************************************************************)
(* Program constants.                                                      *)
(***************************************************************************)
KMER_LENGTH == 20

decode_into_base == <<"A", "C", "G", "T">>

(***************************************************************************)
(* Characters: the printable ASCII range, codes 32 (space) .. 126; the     *)
(* four quoting characters are written by name.                           *)
(***************************************************************************)
Ascii ==
  << " ", "!", "dquote", "#", "$", "%", "&", "quote", "(", ")", "*", "+", ",", "-",
     ".", "/", "0", "1", "2", "3", "4", "5", "6", "7", "8", "9", ":", ";",
     "<", "=", ">", "?", "@", "A", "B", "C", "D", "E", "F", "G", "H", "I",
     "J", "K", "L", "M", "N", "O", "P", "Q", "R", "S", "T", "U", "V", "W",
     "X", "Y", "Z", "[", "bslash", "]", "^", "_", "bquote", "a", "b", "c", "d", "e",
     "f", "g", "h", "i", "j", "k", "l", "m", "n", "o", "p", "q", "r", "s",
     "t", "u", "v", "w", "x", "y", "z", "{", "|", "}", "~" >>

CharSet == {Ascii[i] : i \in 1..Len(Ascii)}

CodeTable == [c \in CharSet |-> 31 + (CHOOSE i \in 1..Len(Ascii) : Ascii[i] = c)]

Code(c) == CodeTable[c]

Chr(n) == Ascii[n - 31]

\* c - 48, the digit value the parsers take of a character
DigitOf(c) == Code(c) - 48

\* toupper(c) / tolower(c) in the "C" locale
ToUpper(c) == IF Code(c) >= 97 /\ Code(c) <= 122 THEN Chr(Code(c) - 32) ELSE c

ToLower(c) == IF Code(c) >= 65 /\ Code(c) <= 90 THEN Chr(Code(c) + 32) ELSE c

\* vector::insert(begin() + p, c) for 0 <= p <= size()
InsertAt(seq, p, c) == SubSeq(seq, 1, p) \o <<c>> \o SubSeq(seq, p + 1, Len(seq))

\* std::string::rfind of a space: C++ index of the last space, -1 (npos as int) if none
RFindSpace(temp) ==
  IF \E i \in 1..Len(temp) : temp[i] = " "
  THEN (CHOOSE i \in 1..Len(temp) :
          temp[i] = " " /\ \A j \in (i + 1)..Len(temp) : temp[j] # " ") - 1
  ELSE -1

(***************************************************************************)
(* load_and_clean_reference: lines starting with > and empty lines are     *)
(* skipped, every other character is upper-cased and kept if it is a base. *)
(***************************************************************************)
CleanLine(line) ==
  LET up == [i \in 1..Len(line) |-> ToUpper(line[i])]
  IN  SelectSeq(up, LAMBDA c : c \in {"A", "C", "G", "T"})

RECURSIVE CleanReference(_)
CleanReference(lines) ==
  IF lines = <<>> THEN <<>>
  ELSE LET line == Head(lines)
       IN  IF line = <<>> \/ line[1] = ">"
           THEN CleanReference(Tail(lines))
           ELSE CleanLine(line) \o CleanReference(Tail(lines))

(***************************************************************************)
(* The delimited integer list parser of load_metadata.  i runs over the    *)
(* characters (TLA+ index) up to stop; a space flushes curr, the end of    *)
(* the loop flushes the last integer.                                      *)
(***************************************************************************)
RECURSIVE ParseItems(_, _, _, _, _)
ParseItems(temp, i, stop, curr, acc) ==
  IF i > stop THEN Append(acc, curr)
  ELSE IF temp[i] = " "
       THEN ParseItems(temp, i + 1, stop, 0, Append(acc, curr))
       ELSE ParseItems(temp, i + 1, stop, curr * 10 + DigitOf(temp[i]), acc)

\* temp[0] - 48; temp[0] of an empty std::string is the terminating NUL
FirstDigit(temp) == IF temp = <<>> THEN 0 - 48 ELSE DigitOf(temp[1])

ParseIntList(temp) == ParseItems(temp, 2, Len(temp), FirstDigit(temp), <<>>)

\* the special-character line: the integer list ends at the last space,
\* the order digits follow it
ParseSpecialChars(temp) ==
  ParseItems(temp, 2, RFindSpace(temp) + 1, FirstDigit(temp), <<>>)

ParseSpecialOrder(temp) ==
  LET order_list_start == RFindSpace(temp) + 1
  IN  [k \in 1..(Len(temp) - order_list_start) |-> DigitOf(temp[order_list_start + k])]

\* line 7: initial reference position and first continue_for
RECURSIVE ParseStart(_, _, _, _)
ParseStart(temp, i, curr, position) ==
  IF i > Len(temp) THEN [ref_seq_position |-> position, first_continue_for |-> curr]
  ELSE IF temp[i] = " "
       THEN ParseStart(temp, i + 1, 0, curr)
       ELSE ParseStart(temp, i + 1, curr * 10 + DigitOf(temp[i]), position)

(***************************************************************************)
(* load_mismatch_data.  ParsePairLine is the scan of the second line of a  *)
(* pair: offset is <<>> while mismatch.offset_from_prev has not been       *)
(* assigned (the field is then indeterminate), <<v>> once it has.          *)
(***************************************************************************)
\* a scan that accumulates the digits with the sign but does not multiply
\* the last field by mult again
RECURSIVE ParsePairLineSignedTail(_, _, _, _, _)
ParsePairLineSignedTail(temp, i, pos, mult, offset) ==
  IF i > Len(temp) THEN [offset |-> offset, continue_for |-> pos]
  ELSE IF temp[i] = "-"
       THEN ParsePairLineSignedTail(temp, i + 1, pos, 0 - 1, offset)
       ELSE IF temp[i] = " "
            THEN ParsePairLineSignedTail(temp, i + 1, 0, mult, <<pos>>)
            ELSE ParsePairLineSignedTail(temp, i + 1, pos * 10 + mult * DigitOf(temp[i]),
                                         mult, offset)

RECURSIVE ParsePairLine(_, _, _, _, _)
ParsePairLine(temp, i, pos, mult, offset) ==
  IF i > Len(temp) THEN [offset |-> offset, continue_for |-> pos * mult]
  ELSE IF temp[i] = "-"
       THEN ParsePairLine(temp, i + 1, pos, 0 - 1, offset)
       ELSE IF temp[i] = " "
            THEN ParsePairLine(temp, i + 1, 0, mult, <<pos>>)
            ELSE ParsePairLine(temp, i + 1, pos * 10 + mult * DigitOf(temp[i]), mult, offset)

ParseBases(temp) == [i \in 1..Len(temp) |-> DigitOf(temp[i])]

\* The text the second getline of the loop leaves in temp for the pair that
\* starts at line i of the body.  At end of file: with a final newline the
\* stream is still good, getline erases temp and then fails; without one eofbit
\* is already set, the sentry fails and temp keeps the first line of the pair.
SecondLine(body, final_newline, i) ==
  IF i + 1 <= Len(body) THEN body[i + 1]
  ELSE IF final_newline THEN <<>> ELSE body[i]

\* Number of Mismatch records the while loop appends: one per successful
\* first getline
NumRecords(body) == (Len(body) + 1) \div 2

\* indet[j] is the indeterminate value an unassigned offset_from_prev of
\* record j holds
ParseBody(body, final_newline, indet) ==
  [j \in 1..NumRecords(body) |->
     LET i == 2 * j - 1
         p == ParsePairLine(SecondLine(body, final_newline, i), 1, 0, 1, <<>>)
     IN  [mismatched_bases |-> ParseBases(body[i]),
          offset_from_prev |-> IF p.offset = <<>> THEN indet[j] ELSE p.offset[1],
          continue_for     |-> p.continue_for]]

(***************************************************************************)
(* The text of the compressed file, as the file format writes it: decimal  *)
(* integers, a space after each integer of a list.                         *)
(***************************************************************************)
RECURSIVE NatStr(_)
NatStr(n) == IF n < 10 THEN <<Chr(48 + n)>> ELSE NatStr(n \div 10) \o <<Chr(48 + (n % 10))>>

IntStr(n) == IF n < 0 THEN <<"-">> \o NatStr(0 - n) ELSE NatStr(n)

RECURSIVE ListStr(_)
ListStr(ints) ==
  IF ints = <<>> THEN <<>>
  ELSE IF Len(ints) = 1 THEN NatStr(ints[1])
       ELSE NatStr(Head(ints)) \o <<" ">> \o ListStr(Tail(ints))

DigitsStr(ds) == [i \in 1..Len(ds) |-> Chr(48 + ds[i])]

SpecialStr(ints, order) == ListStr(ints) \o <<" ">> \o DigitsStr(order)

PairStr(a, b) == a \o <<" ">> \o b

(***************************************************************************)
(* State: the globals of the program, the two input files, the position    *)
(* of main, and history variables (prefix h_) that record what the run did. *)
(***************************************************************************)
VARIABLES
  pc,                  \* the statement of main that runs next
  ref_file,            \* lines of the reference file
  comp_file,           \* lines of the compressed file: 7 metadata lines, then the body
  final_newline,       \* whether the last line of the compressed file ends in a newline
  ref_seq, target_seq, header, line_lenghts, lower_case_ranges, n_ranges,
  special_chars, special_chars_order, mismatch_data,
  first_continue_for, ref_seq_position,
  mm_idx,              \* records of mismatch_data the replay loop has consumed
  out_file,            \* lines written to reconstructed_sequence.txt
  h_stages,            \* the stages of main entered so far, in order
  h_reads,             \* the indices at which ref_seq has been read (C++ index)
  h_pos_in,            \* ref_seq_position when decompress_target_sequence was entered
  h_seq_in             \* target_seq as each overlay pass entered so far found it

vars == <<pc, ref_file, comp_file, final_newline, ref_seq, target_seq, header,
          line_lenghts, lower_case_ranges, n_ranges, special_chars,
          special_chars_order, mismatch_data, first_continue_for,
          ref_seq_position, mm_idx, out_file, h_stages, h_reads, h_pos_in,
          h_seq_in>>

inputs == <<ref_file, comp_file, final_newline>>

metadata == <<header, line_lenghts, lower_case_ranges, n_ranges, special_chars,
              special_chars_order, first_continue_for>>

history == <<h_stages, h_reads, h_pos_in, h_seq_in>>

(***************************************************************************)
(* Undefined behaviour.  An out-of-range read of a vector yields an        *)
(* indeterminate character (Garbage: one that is a base and one that is    *)
(* not) or ends the process; an out-of-range write or insert ends the      *)
(* process or leaves the vector corrupted.                                 *)
(***************************************************************************)
Garbage == {"T", "?"}

IndetInts == {0 - 3, 0, 4}

Corrupted(seq) == {seq, Append(seq, "?")}

\* the outcomes of a pass whose computation r = [ok, seq] was stopped at the
\* first undefined operation when ~r.ok
PassOutcomes(r, next) ==
  IF r.ok THEN {[pc |-> next, seq |-> r.seq]}
  ELSE {[pc |-> "crashed", seq |-> r.seq]}
         \cup {[pc |-> next, seq |-> s] : s \in Corrupted(r.seq)}

(***************************************************************************)
(* decompress_target_sequence                                              *)
(***************************************************************************)
InRef(i) == i >= 0 /\ i < Len(ref_seq)

\* the indices read by a copy loop of n iterations from cursor c
CopyReads(c, n) == {c + k : k \in 0..(n - 1)}

CopyInRange(c, n) == \A i \in CopyReads(c, n) : InRef(i)

\* the characters a copy loop of n iterations from cursor c pushes; g is what
\* an out-of-range read yields
CopyRun(c, n, g) ==
  [k \in 1..(IF n > 0 THEN n ELSE 0) |->
     IF InRef(c + k - 1) THEN ref_seq[c + k] ELSE g]

\* the copy loop stopped at its first out-of-range read
CopyPrefix(c, n) ==
  LET bad == {k \in 0..(n - 1) : ~InRef(c + k)}
      stop == IF bad = {} THEN n
              ELSE CHOOSE k \in bad : \A m \in bad : k <= m
  IN  [k \in 1..(IF stop > 0 THEN stop ELSE 0) |-> ref_seq[c + k]]

\* the indices read before the process ends inside the copy loop
CrashReads(c, n) ==
  CopyReads(c, Len(CopyPrefix(c, n)) + (IF CopyInRange(c, n) THEN 0 ELSE 1))

\* a replay that also moves the cursor over the literal run
CursorAfterJumpAndLiterals(cursor, mismatch) ==
  cursor + mismatch.offset_from_prev + Len(mismatch.mismatched_bases)

\* the cursor the mismatch loop copies from: offset_from_prev alone moves it
CursorAfterJump(cursor, mismatch) == cursor + mismatch.offset_from_prev

BasesInRange(mismatch) ==
  \A i \in 1..Len(mismatch.mismatched_bases) :
     mismatch.mismatched_bases[i] \in 0..3

DecodeBases(mismatch) ==
  [i \in 1..Len(mismatch.mismatched_bases) |->
     IF mismatch.mismatched_bases[i] \in 0..3
     THEN decode_into_base[mismatch.mismatched_bases[i] + 1] ELSE "?"]

\* a loop that is left after its first record
AfterRecordFirstOnly(k) == "add_special"

\* where main stands once k records have been consumed: the loop of lines
\* 256-268 goes on, or the function returns and main calls the first overlay
AfterRecord(k) == IF k < Len(mismatch_data) THEN "replay" ELSE "add_special"

\* lines 251-254: the run up to the first mismatch
DecompressFirst ==
  /\ pc = "decompress"
  /\ LET n == first_continue_for + KMER_LENGTH
         c == ref_seq_position
     IN  /\ h_pos_in' = c
         /\ h_stages' = Append(h_stages, "replay")
         /\ mm_idx' = 0
         /\ IF CopyInRange(c, n)
            THEN /\ target_seq' = target_seq \o CopyRun(c, n, "?")
                 /\ ref_seq_position' = c + (IF n > 0 THEN n ELSE 0)
                 /\ h_reads' = h_reads \cup CopyReads(c, n)
                 /\ pc' = AfterRecord(0)
            ELSE \E g \in Garbage \cup {"crash"} :
                   IF g = "crash"
                   THEN /\ target_seq' = target_seq \o CopyPrefix(c, n)
                        /\ ref_seq_position' = c + Len(CopyPrefix(c, n))
                        /\ h_reads' = h_reads \cup CrashReads(c, n)
                        /\ pc' = "crashed"
                   ELSE /\ target_seq' = target_seq \o CopyRun(c, n, g)
                        /\ ref_seq_position' = c + (IF n > 0 THEN n ELSE 0)
                        /\ h_reads' = h_reads \cup CopyReads(c, n)
                        /\ pc' = AfterRecord(0)
  /\ UNCHANGED <<inputs, ref_seq, metadata, mismatch_data, out_file, h_seq_in>>

\* lines 256-268: one iteration of the loop over mismatch_data
DecompressMismatch ==
  /\ pc = "replay"
  /\ mm_idx < Len(mismatch_data)
  /\ LET mismatch == mismatch_data[mm_idx + 1]
         n == mismatch.continue_for + KMER_LENGTH
         c == CursorAfterJump(ref_seq_position, mismatch)
         lit == target_seq \o DecodeBases(mismatch)
     IN  /\ mm_idx' = mm_idx + 1
         /\ IF BasesInRange(mismatch) /\ CopyInRange(c, n)
            THEN /\ target_seq' = lit \o CopyRun(c, n, "?")
                 /\ ref_seq_position' = c + (IF n > 0 THEN n ELSE 0)
                 /\ h_reads' = h_reads \cup CopyReads(c, n)
                 /\ pc' = AfterRecord(mm_idx + 1)
            ELSE \E g \in Garbage \cup {"crash"} :
                   IF g = "crash"
                   THEN /\ target_seq' = lit \o CopyPrefix(c, n)
                        /\ ref_seq_position' = c + Len(CopyPrefix(c, n))
                        /\ h_reads' = h_reads \cup CrashReads(c, n)
                        /\ pc' = "crashed"
                   ELSE /\ target_seq' = lit \o CopyRun(c, n, g)
                        /\ ref_seq_position' = c + (IF n > 0 THEN n ELSE 0)
                        /\ h_reads' = h_reads \cup CopyReads(c, n)
                        /\ pc' = AfterRecord(mm_idx + 1)
  /\ UNCHANGED <<inputs, ref_seq, metadata, mismatch_data, out_file,
                 h_stages, h_pos_in, h_seq_in>>

(***************************************************************************)
(* The overlay passes.  Each computation returns [ok, seq]: ok is FALSE    *)
(* once an operation with undefined behaviour (vector index or insert      *)
(* position out of range) is reached, and seq is the sequence built up to  *)
(* that operation.                                                         *)
(***************************************************************************)
\* vector<int> element i (C++ index) is in range
Has(list, i) == i >= 0 /\ i < Len(list)

\* positions that forget the place the previous special character takes
RECURSIVE SpecialPositionsNoStep(_, _, _, _)
SpecialPositionsNoStep(list, i, pos, acc) ==
  IF i >= list[1] + 1 THEN acc
  ELSE SpecialPositionsNoStep(list, i + 1, pos + list[i + 1], Append(acc, pos + list[i + 1]))

\* lines 286-291: special_chars_positions
RECURSIVE SpecialPositions(_, _, _, _)
SpecialPositions(list, i, pos, acc) ==
  IF i >= list[1] + 1 THEN acc
  ELSE SpecialPositions(list, i + 1, pos + list[i + 1] + 1, Append(acc, pos + list[i + 1]))

\* lines 294-297: unique_special_chars_decoded, value + 65 ('A')
SpecialDictionary(list) ==
  LET special_char_num == list[1]
      unique_special_chars_num == list[special_char_num + 2]
  IN  [k \in 1..unique_special_chars_num |-> Chr(list[special_char_num + 2 + k] + 65)]

\* the reads of special_chars in lines 276-297 are in range and decode to
\* characters of the table
SpecialListDefined(list) ==
  /\ Has(list, 0)
  /\ Has(list, list[1] + 1)
  /\ list[1] >= 0
  /\ list[1] > 0 =>
       /\ list[list[1] + 2] >= 0
       /\ Has(list, list[1] + list[list[1] + 2] + 1)
       /\ \A k \in 1..list[list[1] + 2] : list[list[1] + 2 + k] + 65 \in 32..126

\* lines 300-303: the insertion loop from occurrence i (1-based) on
RECURSIVE InsertSpecials(_, _, _, _, _)
InsertSpecials(seq, positions, dict, order, i) ==
  IF i > Len(order) THEN [ok |-> TRUE, seq |-> seq]
  ELSE IF /\ i <= Len(positions)
          /\ order[i] >= 0 /\ order[i] < Len(dict)
          /\ positions[i] >= 0 /\ positions[i] <= Len(seq)
       THEN InsertSpecials(InsertAt(seq, positions[i], dict[order[i] + 1]),
                           positions, dict, order, i + 1)
       ELSE [ok |-> FALSE, seq |-> seq]

\* the pass without the return on a zero count
SpecialPassNoReturn(seq, list, order) ==
  IF ~SpecialListDefined(list) THEN [ok |-> FALSE, seq |-> seq]
  ELSE InsertSpecials(seq, SpecialPositions(list, 1, 0, <<>>),
                      SpecialDictionary(list), order, 1)

SpecialPass(seq, list, order) ==
  IF ~SpecialListDefined(list) THEN [ok |-> FALSE, seq |-> seq]
  ELSE IF list[1] = 0 THEN [ok |-> TRUE, seq |-> seq]
  ELSE InsertSpecials(seq, SpecialPositions(list, 1, 0, <<>>),
                      SpecialDictionary(list), order, 1)

\* a start taken as absolute, without the running position
RangeStartAbsolute(start, prev_pos) == start

\* the absolute start of the range read at index i: start + prev_pos
RangeStart(start, prev_pos) == start + prev_pos

\* a running position that forgets the length of the range
NextPrevPosNoLength(prev_pos, start, length) == prev_pos + start

\* line 326 / 352: prev_pos += start + length
NextPrevPos(prev_pos, start, length) == prev_pos + start + length

\* lines 323-325: insert length copies of N from position at on
RECURSIVE InsertNs(_, _, _, _)
InsertNs(seq, at, length, j) ==
  IF j >= length THEN [ok |-> TRUE, seq |-> seq]
  ELSE IF at + j >= 0 /\ at + j <= Len(seq)
       THEN InsertNs(InsertAt(seq, at + j, "N"), at, length, j + 1)
       ELSE [ok |-> FALSE, seq |-> seq]

\* lines 319-327: the loop over the pairs, i the C++ index of the next start
RECURSIVE NRangesLoop(_, _, _, _)
NRangesLoop(seq, list, i, prev_pos) ==
  IF i >= list[1] * 2 + 1 THEN [ok |-> TRUE, seq |-> seq]
  ELSE IF ~Has(list, i + 1) THEN [ok |-> FALSE, seq |-> seq]
  ELSE LET start == list[i + 1]
           length == list[i + 2]
           r == InsertNs(seq, RangeStart(start, prev_pos), length, 0)
       IN  IF r.ok
           THEN NRangesLoop(r.seq, list, i + 2, NextPrevPos(prev_pos, start, length))
           ELSE r

\* lines 318-327 / 342-353: the absolute starts the loop derives, in order
RECURSIVE RangeStartsLoop(_, _, _, _)
RangeStartsLoop(list, i, prev_pos, acc) ==
  IF i >= list[1] * 2 + 1 \/ ~Has(list, i + 1) THEN acc
  ELSE RangeStartsLoop(list, i + 2, NextPrevPos(prev_pos, list[i + 1], list[i + 2]),
                       Append(acc, RangeStart(list[i + 1], prev_pos)))

RangeStarts(list) == RangeStartsLoop(list, 1, 0, <<>>)

NRangesPass(seq, list) ==
  IF ~Has(list, 0) THEN [ok |-> FALSE, seq |-> seq]
  ELSE IF list[1] = 0 THEN [ok |-> TRUE, seq |-> seq]
  ELSE NRangesLoop(seq, list, 1, 0)

\* a loop that starts one character late
RECURSIVE LowerRunLate(_, _, _, _)
LowerRunLate(seq, at, length, j) ==
  IF j >= length THEN [ok |-> TRUE, seq |-> seq]
  ELSE IF at + j + 1 >= 0 /\ at + j + 1 < Len(seq)
       THEN LowerRunLate([seq EXCEPT ![at + j + 2] = ToLower(seq[at + j + 2])],
                         at, length, j + 1)
       ELSE [ok |-> FALSE, seq |-> seq]

\* lines 347-350: lowercase length characters from position at on
RECURSIVE LowerRun(_, _, _, _)
LowerRun(seq, at, length, j) ==
  IF j >= length THEN [ok |-> TRUE, seq |-> seq]
  ELSE IF at + j >= 0 /\ at + j < Len(seq)
       THEN LowerRun([seq EXCEPT ![at + j + 1] = ToLower(seq[at + j + 1])], at, length, j + 1)
       ELSE [ok |-> FALSE, seq |-> seq]

\* lines 343-353
RECURSIVE LowercaseLoop(_, _, _, _)
LowercaseLoop(seq, list, i, prev_pos) ==
  IF i >= list[1] * 2 + 1 THEN [ok |-> TRUE, seq |-> seq]
  ELSE IF ~Has(list, i + 1) THEN [ok |-> FALSE, seq |-> seq]
  ELSE LET start == list[i + 1]
           length == list[i + 2]
           r == LowerRun(seq, RangeStart(start, prev_pos), length, 0)
       IN  IF r.ok
           THEN LowercaseLoop(r.seq, list, i + 2, NextPrevPos(prev_pos, start, length))
           ELSE r

LowercasePass(seq, list) ==
  IF ~Has(list, 0) THEN [ok |-> FALSE, seq |-> seq]
  ELSE IF list[1] = 0 THEN [ok |-> TRUE, seq |-> seq]
  ELSE LowercaseLoop(seq, list, 1, 0)

AddSpecialCharacters ==
  /\ pc = "add_special"
  /\ h_stages' = Append(h_stages, "special")
  /\ h_seq_in' = Append(h_seq_in, target_seq)
  /\ \E o \in PassOutcomes(SpecialPass(target_seq, special_chars, special_chars_order),
                           "add_n") :
       /\ target_seq' = o.seq
       /\ pc' = o.pc
  /\ UNCHANGED <<inputs, ref_seq, metadata, mismatch_data, ref_seq_position,
                 mm_idx, out_file, h_reads, h_pos_in>>

AddNRanges ==
  /\ pc = "add_n"
  /\ h_stages' = Append(h_stages, "n_ranges")
  /\ h_seq_in' = Append(h_seq_in, target_seq)
  /\ \E o \in PassOutcomes(NRangesPass(target_seq, n_ranges), "add_lowercase") :
       /\ target_seq' = o.seq
       /\ pc' = o.pc
  /\ UNCHANGED <<inputs, ref_seq, metadata, mismatch_data, ref_seq_position,
                 mm_idx, out_file, h_reads, h_pos_in>>

AddLowercaseRanges ==
  /\ pc = "add_lowercase"
  /\ h_stages' = Append(h_stages, "lowercase")
  /\ h_seq_in' = Append(h_seq_in, target_seq)
  /\ \E o \in PassOutcomes(LowercasePass(target_seq, lower_case_ranges), "write") :
       /\ target_seq' = o.seq
       /\ pc' = o.pc
  /\ UNCHANGED <<inputs, ref_seq, metadata, mismatch_data, ref_seq_position,
                 mm_idx, out_file, h_reads, h_pos_in>>

(***************************************************************************)
(* The loaders and the writer.                                             *)
(***************************************************************************)
LoadAndCleanReference ==
  /\ pc = "load_reference"
  /\ ref_seq' = ref_seq \o CleanReference(ref_file)
  /\ h_stages' = Append(h_stages, "load_reference")
  /\ pc' = "load_metadata"
  /\ UNCHANGED <<inputs, target_seq, metadata, mismatch_data, ref_seq_position,
                 mm_idx, out_file, h_reads, h_pos_in, h_seq_in>>

LoadMetadata ==
  /\ pc = "load_metadata"
  /\ header' = comp_file[1]
  /\ line_lenghts' = line_lenghts \o ParseIntList(comp_file[3])
  /\ lower_case_ranges' = lower_case_ranges \o ParseIntList(comp_file[4])
  /\ n_ranges' = n_ranges \o ParseIntList(comp_file[5])
  /\ special_chars' = special_chars \o ParseSpecialChars(comp_file[6])
  /\ special_chars_order' = special_chars_order \o ParseSpecialOrder(comp_file[6])
  /\ LET start == ParseStart(comp_file[7], 1, 0, ref_seq_position)
     IN  /\ ref_seq_position' = start.ref_seq_position
         /\ first_continue_for' = start.first_continue_for
  /\ h_stages' = Append(h_stages, "metadata")
  /\ pc' = "load_mismatch"
  /\ UNCHANGED <<inputs, ref_seq, target_seq, mismatch_data, mm_idx, out_file,
                 h_reads, h_pos_in, h_seq_in>>

\* the lines after the 7 lines load_mismatch_data skips
Body(file) == SubSeq(file, 8, Len(file))

\* what an unassigned offset_from_prev can hold: the Mismatch of every
\* iteration lives in the same stack slot, so a value an earlier record was
\* given, or any other integer
StaleOffsets(body, nl) ==
  {p.offset[1] : p \in {q \in {ParsePairLine(SecondLine(body, nl, 2 * j - 1), 1, 0, 1, <<>>) :
                                  j \in 1..NumRecords(body)} : q.offset # <<>>}}

LoadMismatchData ==
  /\ pc = "load_mismatch"
  /\ \E indet \in [1..NumRecords(Body(comp_file)) ->
                      IndetInts \cup StaleOffsets(Body(comp_file), final_newline)] :
       mismatch_data' = mismatch_data \o ParseBody(Body(comp_file), final_newline, indet)
  /\ h_stages' = Append(h_stages, "edit_script")
  /\ pc' = "decompress"
  /\ UNCHANGED <<inputs, ref_seq, target_seq, metadata, ref_seq_position,
                 mm_idx, out_file, h_reads, h_pos_in, h_seq_in>>

\* lines 378-384: one output line of lenght characters from curr on; g is
\* what an out-of-range read of target_seq yields
Row(seq, curr, lenght, g) ==
  [k \in 1..(IF lenght > 0 THEN lenght ELSE 0) |->
     IF curr + k >= 1 /\ curr + k <= Len(seq) THEN seq[curr + k] ELSE g]

RowInRange(seq, curr, lenght) ==
  \A k \in 1..lenght : curr + k >= 1 /\ curr + k <= Len(seq)

\* lines 374-385.  Returns [ok, lines]; when a read is out of range ok is
\* FALSE, and lines holds the rows written before it if g is "crash", all the
\* rows with g at the out-of-range places otherwise.
RECURSIVE WriteLoop(_, _, _, _, _, _)
WriteLoop(seq, list, i, curr, acc, g) ==
  IF i >= list[1] + 1 THEN [ok |-> TRUE, lines |-> acc]
  ELSE IF ~Has(list, i + 1) THEN [ok |-> FALSE, lines |-> acc]
  ELSE LET lenght == list[i + 1]
           repeat_cnt == IF list[i + 2] > 0 THEN list[i + 2] ELSE 0
           bad == {j \in 1..repeat_cnt : ~RowInRange(seq, curr + (j - 1) * lenght, lenght)}
           good == IF bad = {} THEN repeat_cnt
                   ELSE (CHOOSE j \in bad : \A m \in bad : j <= m) - 1
           rows == [j \in 1..(IF g = "crash" THEN good ELSE repeat_cnt) |->
                      Row(seq, curr + (j - 1) * lenght, lenght, g)]
           rest == WriteLoop(seq, list, i + 2, curr + repeat_cnt * lenght, acc \o rows, g)
       IN  IF bad = {} THEN rest
           ELSE IF g = "crash" THEN [ok |-> FALSE, lines |-> acc \o rows]
           ELSE [ok |-> FALSE, lines |-> rest.lines]

WriteReconstructedSequenceToFile ==
  /\ pc = "write"
  /\ h_stages' = Append(h_stages, "write")
  /\ \E g \in Garbage \cup {"crash"} :
       LET r == IF Has(line_lenghts, 0)
                THEN WriteLoop(target_seq, line_lenghts, 1, 0, <<>>, g)
                ELSE [ok |-> FALSE, lines |-> <<>>]
       IN  /\ out_file' = <<header, <<>>>> \o r.lines
           /\ pc' = IF r.ok \/ g # "crash" THEN "cleanup" ELSE "crashed"
  /\ UNCHANGED <<inputs, ref_seq, target_seq, metadata, mismatch_data,
                 ref_seq_position, mm_idx, h_reads, h_pos_in, h_seq_in>>

Cleanup ==
  /\ pc = "cleanup"
  /\ ref_seq' = <<>>
  /\ target_seq' = <<>>
  /\ pc' = "done"
  /\ UNCHANGED <<inputs, metadata, mismatch_data, ref_seq_position, mm_idx,
                 out_file, history>>

(***************************************************************************)
(* Inputs.                                                                 *)
(***************************************************************************)
RECURSIVE Rep(_, _)
Rep(chunk, n) == IF n <= 0 THEN <<>> ELSE chunk \o Rep(chunk, n - 1)

\* two reference files: a title line, sequence lines in mixed case with
\* characters that are not bases, an empty line
RefFiles ==
  { << <<">", "r", "1">>,
       Rep(<<"a", "c", "g", "N", "G", "t", "c", "A">>, RefRepeats - 4),
       <<>>,
       Rep(<<"A", "C", "G", "G", "T", "C", "A">>, 4) >>,
    << Rep(<<"T", "T", "g", "a", "-", "C">>, RefRepeats),
       <<">", "x">>,
       Rep(<<"T", "T", "G", "A", "C">>, 4) >> }

RefSeqs == {CleanReference(f) : f \in RefFiles}

ZeroSpecial == SpecialStr(<<0, 0>>, <<>>)

\* the 7 metadata lines of a compressed file
MetaLines(layout, lower, n, special, start, run) ==
  << <<">", "t">>, <<>>, ListStr(layout), ListStr(lower), ListStr(n), special,
     PairStr(NatStr(start), NatStr(run)) >>

BaseLines == {<<>>, <<"2">>, <<"0", "3">>}

Signs == {<<>>, <<"-">>}

Magnitudes == {0, 7, 12}

PairLines ==
  {PairStr(sa \o NatStr(a), sb \o NatStr(b)) :
     sa \in Signs, sb \in Signs, a \in Magnitudes, b \in Magnitudes}

\* bodies of n lines: base-code lines and pair lines in turn
RECURSIVE BodiesOfLen(_)
BodiesOfLen(n) ==
  IF n = 0 THEN {<<>>}
  ELSE {Append(b, l) : b \in BodiesOfLen(n - 1),
                       l \in (IF n % 2 = 1 THEN BaseLines ELSE PairLines)}

Bodies == UNION {BodiesOfLen(n) : n \in 0..MaxBodyLines}

\* a file whose last line has no newline ends in a non-empty line
FileEndOK(file, nl) == nl \/ file[Len(file)] # <<>>

(***************************************************************************)
(* Initial states.                                                         *)
(***************************************************************************)
\* the globals as their definitions (lines 23-33) leave them
GlobalsEmpty ==
  /\ ref_seq = <<>> /\ target_seq = <<>> /\ header = <<>>
  /\ line_lenghts = <<>> /\ lower_case_ranges = <<>> /\ n_ranges = <<>>
  /\ special_chars = <<>> /\ special_chars_order = <<>>
  /\ mismatch_data = <<>>
  /\ first_continue_for = 0 /\ ref_seq_position = 0

HistoryEmpty ==
  /\ h_stages = <<>> /\ h_reads = {} /\ h_pos_in = 0 /\ h_seq_in = <<>>

\* the globals load_metadata fills, as it leaves them after reading file
MetadataLoaded(file) ==
  /\ header = file[1]
  /\ line_lenghts = ParseIntList(file[3])
  /\ lower_case_ranges = ParseIntList(file[4])
  /\ n_ranges = ParseIntList(file[5])
  /\ special_chars = ParseSpecialChars(file[6])
  /\ special_chars_order = ParseSpecialOrder(file[6])
  /\ first_continue_for = ParseStart(file[7], 1, 0, 0).first_continue_for

PipelineBodies ==
  { <<>>,
    << <<"2">>, PairStr(IntStr(0), IntStr(0)) >>,
    << <<"0", "3">>, PairStr(IntStr(0 - 7), IntStr(1)) >>,
    << <<"1">>, PairStr(IntStr(2), IntStr(0)), <<"3">> >>,
    << <<>>, PairStr(IntStr(0 - 20), IntStr(0)), <<"1", "1">>, PairStr(IntStr(0), IntStr(2)) >> }

PipelineFiles ==
  { MetaLines(layout, lower, n, special, start, 0) \o body :
      layout \in {<<2, 10, 2>>, <<4, 21, 1, 7, 3>>},
      lower \in {<<0>>, <<1, 2, 3>>},
      n \in {<<0>>, <<1, 0, 2>>},
      special \in {ZeroSpecial, SpecialStr(<<1, 3, 1, 23>>, <<0>>)},
      start \in {0, RefRepeats},
      body \in PipelineBodies }

\* main, from line 419 on, on a reference file and a compressed file
Init ==
  /\ pc = "load_reference"
  /\ ref_file \in RefFiles
  /\ comp_file \in PipelineFiles
  /\ final_newline \in BOOLEAN
  /\ FileEndOK(comp_file, final_newline)
  /\ GlobalsEmpty
  /\ mm_idx = 0
  /\ out_file = <<>>
  /\ HistoryEmpty

Next ==
  \/ LoadAndCleanReference
  \/ LoadMetadata
  \/ LoadMismatchData
  \/ DecompressFirst
  \/ DecompressMismatch
  \/ AddSpecialCharacters
  \/ AddNRanges
  \/ AddLowercaseRanges
  \/ WriteReconstructedSequenceToFile
  \/ Cleanup

Spec == Init /\ [][Next]_vars

\* load_mismatch_data on the bodies of Bodies, entered as main enters it
InitParse ==
  /\ pc = "load_mismatch"
  /\ ref_file \in RefFiles
  /\ \E body \in Bodies :
       comp_file = MetaLines(<<2, 10, 2>>, <<0>>, <<0>>, ZeroSpecial, 0, 0) \o body
  /\ final_newline \in BOOLEAN
  /\ FileEndOK(comp_file, final_newline)
  /\ ref_seq = CleanReference(ref_file)
  /\ MetadataLoaded(comp_file)
  /\ ref_seq_position = ParseStart(comp_file[7], 1, 0, 0).ref_seq_position
  /\ target_seq = <<>>
  /\ mismatch_data = <<>>
  /\ mm_idx = 0
  /\ out_file = <<>>
  /\ h_stages = <<"load_reference", "metadata">>
  /\ h_reads = {} /\ h_pos_in = 0 /\ h_seq_in = <<>>

NextParse == LoadMismatchData

SpecParse == InitParse /\ [][NextParse]_vars

\* decompress_target_sequence on the edit scripts of ReplayBodies, entered as
\* main enters it after the loaders have read the two files
Jumps == {0 - MaxJump, 0, MaxJump, 0 - (KMER_LENGTH + MaxStart + MaxRun + 1)}

Starts == {0, MaxStart}

Runs == {0, MaxRun}

ReplayPairs ==
  { << bases, PairStr(IntStr(jump), IntStr(run)) >> :
      bases \in {<<>>, <<"0", "3">>}, jump \in Jumps, run \in Runs }

RECURSIVE ReplayBodiesOf(_)
ReplayBodiesOf(n) ==
  IF n = 0 THEN {<<>>}
  ELSE {b \o p : b \in ReplayBodiesOf(n - 1), p \in ReplayPairs}

ReplayBodies == UNION {ReplayBodiesOf(n) : n \in 0..MaxMismatches}

InitReplay ==
  /\ pc = "decompress"
  /\ ref_file \in RefFiles
  /\ \E start \in Starts, run \in Runs, body \in ReplayBodies :
       comp_file = MetaLines(<<2, 10, 2>>, <<0>>, <<0>>, ZeroSpecial, start, run) \o body
  /\ final_newline = TRUE
  /\ ref_seq = CleanReference(ref_file)
  /\ MetadataLoaded(comp_file)
  /\ ref_seq_position = ParseStart(comp_file[7], 1, 0, 0).ref_seq_position
  /\ target_seq = <<>>
  /\ mismatch_data =
       ParseBody(Body(comp_file), final_newline,
                 [j \in 1..NumRecords(Body(comp_file)) |-> 0])
  /\ mm_idx = 0
  /\ out_file = <<>>
  /\ h_stages = <<"load_reference", "metadata", "edit_script">>
  /\ h_reads = {} /\ h_pos_in = 0 /\ h_seq_in = <<>>

NextReplay ==
  \/ DecompressFirst
  \/ DecompressMismatch

SpecReplay == InitReplay /\ [][NextReplay]_vars

\* the three overlay passes, entered as main enters them after the replay.
\* One of the three lists ranges over all the lists within the bounds while
\* the other two are taken from a few samples.
RECURSIVE PairsOf(_)
PairsOf(c) ==
  IF c = 0 THEN {<<>>}
  ELSE {l \o <<d, len>> : l \in PairsOf(c - 1), d \in 0..MaxDelta, len \in 0..MaxRangeLen}

RangeLists == UNION {{<<c>> \o l : l \in PairsOf(c)} : c \in 0..MaxRanges}

SampleNRanges == {<<0>>, <<1, 0, 2>>}

SampleLowercase == {<<0>>, <<1, 2, 3>>}

\* a zero-count special-character line whose last integer has no space after it
ZeroSpecialBare == ListStr(<<0, 0>>)

\* count, gaps, then a dictionary of two characters (X and N), then the order
SpecialLinesOf(c) ==
  {SpecialStr(<<c>> \o gaps \o <<2, 23, 13>>, order) :
     gaps \in [1..c -> 0..MaxDelta], order \in [1..c -> 0..1]}

SpecialLines ==
  {ZeroSpecial, ZeroSpecialBare} \cup UNION {SpecialLinesOf(c) : c \in 1..MaxRanges}

SampleSpecial == {ZeroSpecial, ZeroSpecialBare, SpecialStr(<<1, 3, 1, 23>>, <<0>>)}

OverlaySeqs ==
  { <<"C", "A">>,
    <<"A", "C", "G", "T">>,
    <<"A", "A", "A", "A", "A", "A", "A", "A">> }

OverlayFiles ==
  UNION { { MetaLines(<<2, 10, 2>>, lower, n, special, 0, 0) :
              lower \in (IF focus = "lowercase" THEN RangeLists ELSE SampleLowercase),
              n \in (IF focus = "n_ranges" THEN RangeLists ELSE SampleNRanges),
              special \in (IF focus = "special" THEN SpecialLines ELSE SampleSpecial) } :
          focus \in {"special", "n_ranges", "lowercase"} }

InitOverlay ==
  /\ pc = "add_special"
  /\ ref_file \in RefFiles
  /\ comp_file \in OverlayFiles
  /\ final_newline = TRUE
  /\ ref_seq = CleanReference(ref_file)
  /\ MetadataLoaded(comp_file)
  /\ ref_seq_position = 0
  /\ target_seq \in OverlaySeqs
  /\ mismatch_data = <<>>
  /\ mm_idx = 0
  /\ out_file = <<>>
  /\ h_stages = <<"load_reference", "metadata", "edit_script", "replay">>
  /\ h_reads = {} /\ h_pos_in = 0 /\ h_seq_in = <<>>

NextOverlay ==
  \/ AddSpecialCharacters
  \/ AddNRanges
  \/ AddLowercaseRanges

SpecOverlay == InitOverlay /\ [][NextOverlay]_vars

(***************************************************************************)
(* Properties of the replay.                                               *)
(***************************************************************************)
\* the copy length of run j: run 0 is the initial run, run j the copy after
\* mismatch j
RunLength(j) ==
  IF j = 0 THEN first_continue_for + KMER_LENGTH
  ELSE mismatch_data[j].continue_for + KMER_LENGTH

\* the reference position run j is to start at: the initial offset, plus the
\* lengths of the runs before it, plus the offsets of the mismatches up to j
RECURSIVE RunStart(_)
RunStart(j) ==
  IF j = 0 THEN h_pos_in
  ELSE RunStart(j - 1) + RunLength(j - 1) + mismatch_data[j].offset_from_prev

BaseOfCode(code) ==
  CASE code = 0 -> "A" [] code = 1 -> "C" [] code = 2 -> "G" [] code = 3 -> "T"

Literals(j) ==
  [i \in 1..Len(mismatch_data[j].mismatched_bases) |->
     BaseOfCode(mismatch_data[j].mismatched_bases[i])]

\* what the claim says the output is after m mismatches
RECURSIVE ExpectedTarget(_)
ExpectedTarget(m) ==
  IF m = 0 THEN SubSeq(ref_seq, RunStart(0) + 1, RunStart(0) + RunLength(0))
  ELSE ExpectedTarget(m - 1) \o Literals(m)
         \o SubSeq(ref_seq, RunStart(m) + 1, RunStart(m) + RunLength(m))

\* the inputs of the first m mismatches keep every copy length non-negative
\* and every read inside the reference
ReplayInputValid(m) ==
  \A j \in 0..m :
    /\ RunLength(j) >= 0
    /\ RunStart(j) >= 0
    /\ RunStart(j) + RunLength(j) <= Len(ref_seq)
    /\ j > 0 => \A i \in 1..Len(mismatch_data[j].mismatched_bases) :
                   mismatch_data[j].mismatched_bases[i] \in 0..3

Replaying == pc \in {"replay", "add_special"} /\ h_stages[Len(h_stages)] = "replay"

\* C1: on inputs whose copy lengths are non-negative and whose reads stay
\* inside the reference, the output after m mismatches is the initial run of
\* first_continue_for + 20 reference bases from the initial offset followed,
\* for each mismatch in order, by its decoded bases and continue_for + 20
\* reference bases from the cursor moved by offset_from_prev; the cursor ends
\* at the end of the last run, so only offset_from_prev and the copied bases
\* have moved it.
C1_ReplayOutput ==
  (Replaying /\ ReplayInputValid(mm_idx)) =>
     /\ target_seq = ExpectedTarget(mm_idx)
     /\ ref_seq_position = RunStart(mm_idx) + RunLength(mm_idx)

C1_Witness ==
  /\ pc = "add_special"
  /\ mm_idx = 2
  /\ ReplayInputValid(2)
  /\ mismatch_data[1].offset_from_prev < 0
  /\ mismatch_data[2].offset_from_prev > 0
  /\ mismatch_data[1].mismatched_bases # <<>>
  /\ mismatch_data[2].continue_for > 0

\* C2: every read of the reference during replay is at an index within
\* [0, len(reference)); an input that drives the cursor outside is stopped by
\* a BoundsError before the read.
C2_ReadsInBounds == \A i \in h_reads : i >= 0 /\ i < Len(ref_seq)

(***************************************************************************)
(* Properties of load_mismatch_data.                                       *)
(***************************************************************************)
EditScriptLoaded == pc = "decompress" /\ h_stages[Len(h_stages)] = "edit_script"

\* C3: a body with an odd number of lines makes load_mismatch_data fail with
\* a FormatError, so the load completes only on a body with an even number of
\* lines, and then with one Mismatch per pair of lines.
C3_OddBodyRejected ==
  EditScriptLoaded =>
     /\ Len(Body(comp_file)) % 2 = 0
     /\ Len(mismatch_data) = Len(Body(comp_file)) \div 2

\* the two fields of a line [-]digits space [-]digits
FirstField(line) == SubSeq(line, 1, RFindSpace(line))

SecondField(line) == SubSeq(line, RFindSpace(line) + 2, Len(line))

\* the number a string of decimal digits writes
RECURSIVE DecimalValue(_)
DecimalValue(digits) ==
  IF digits = <<>> THEN 0
  ELSE DecimalValue(SubSeq(digits, 1, Len(digits) - 1)) * 10
         + (CHOOSE d \in 0..9 : Chr(48 + d) = digits[Len(digits)])

Magnitude(field) ==
  IF field # <<>> /\ field[1] = "-" THEN DecimalValue(Tail(field))
  ELSE DecimalValue(field)

\* the integer a field writes: negative exactly when the field starts with -
FieldValue(field) ==
  IF field # <<>> /\ field[1] = "-" THEN 0 - Magnitude(field) ELSE Magnitude(field)

\* the complete pairs of the body
Pairs == 1..(Len(Body(comp_file)) \div 2)

PairLine(j) == Body(comp_file)[2 * j]

Entered(stage) == \E i \in 1..Len(h_stages) : h_stages[i] = stage

\* the pass of this name has returned and main stands at the statement after it
Returned(stage, next) == pc = next /\ h_stages[Len(h_stages)] = stage

\* the sequence the pass entered last was given
PassInput == h_seq_in[Len(h_seq_in)]

\* a RangeList <<count, d1, l1, d2, l2, ...>> as the file format states it
Count(list) == list[1]

Delta(list, k) == list[2 * k]

Length(list, k) == list[2 * k + 1]

RECURSIVE TotalLength(_, _)
TotalLength(list, k) == IF k = 0 THEN 0 ELSE TotalLength(list, k - 1) + Length(list, k)

\* running_position + start_delta of range k
RECURSIVE AbsStart(_, _)
AbsStart(list, k) ==
  IF k = 1 THEN Delta(list, 1)
  ELSE AbsStart(list, k - 1) + Length(list, k - 1) + Delta(list, k)

RangeIndices(list) ==
  UNION {{AbsStart(list, k) + j : j \in 0..(Length(list, k) - 1)} : k \in 1..Count(list)}

\* seq without the characters at the (C++) indices of S
RECURSIVE Without(_, _, _)
Without(seq, S, i) ==
  IF i >= Len(seq) THEN <<>>
  ELSE (IF i \in S THEN <<>> ELSE <<seq[i + 1]>>) \o Without(seq, S, i + 1)

StrictlyIncreasing(starts) ==
  \A k \in 1..(Len(starts) - 1) : starts[k] < starts[k + 1]

\* C5 as claimed: the absolute starts a pass derives from its RangeList are
\* strictly increasing from each range to the next.
C5_StartsStrictlyIncreasing ==
  /\ Entered("n_ranges") => StrictlyIncreasing(RangeStarts(n_ranges))
  /\ Entered("lowercase") => StrictlyIncreasing(RangeStarts(lower_case_ranges))

\* each start is the previous start plus the previous length plus the own
\* start_delta: never smaller than the previous start, and equal to it
\* exactly when the previous length and the own start_delta are both 0
StartsStepByLengthAndDelta(list) ==
  LET starts == RangeStarts(list)
  IN  /\ Len(starts) = Count(list)
      /\ \A k \in 1..(Len(starts) - 1) :
           /\ starts[k + 1] = starts[k] + Length(list, k) + Delta(list, k + 1)
           /\ starts[k + 1] >= starts[k]
           /\ starts[k + 1] = starts[k] <=>
                (Length(list, k) = 0 /\ Delta(list, k + 1) = 0)

\* C5 as the code has it: the absolute starts within one RangeList never
\* decrease, and two consecutive starts are equal exactly when the earlier
\* range has length 0 and the later one start_delta 0; otherwise they
\* strictly increase.
C5_StartsNonDecreasing ==
  /\ Entered("n_ranges") => StartsStepByLengthAndDelta(n_ranges)
  /\ Entered("lowercase") => StartsStepByLengthAndDelta(lower_case_ranges)

C5_Witness ==
  /\ Returned("lowercase", "write")
  /\ Count(lower_case_ranges) >= 2
  /\ RangeStarts(lower_case_ranges)[1] = RangeStarts(lower_case_ranges)[2]

ZeroCounts ==
  /\ special_chars[1] = 0
  /\ n_ranges[1] = 0
  /\ lower_case_ranges[1] = 0

\* C7: with the three counts 0, the overlay passes leave the target sequence
\* as the first of them found it, and each of them returns.
C7_ZeroCountsNoOp ==
  (ZeroCounts /\ h_seq_in # <<>>) =>
     /\ pc \in {"add_n", "add_lowercase", "write"}
     /\ target_seq = h_seq_in[1]

C7_Witness ==
  /\ ZeroCounts
  /\ Returned("lowercase", "write")
  /\ special_chars_order # <<>>
  /\ Len(target_seq) = 4

\* every range with characters to insert starts inside the sequence as the
\* ranges before it have grown it
NRangesInRange(list, seq) ==
  /\ Len(list) >= 2 * Count(list) + 1
  /\ \A k \in 1..Count(list) :
       Length(list, k) > 0 =>
         AbsStart(list, k) <= Len(seq) + TotalLength(list, k - 1)

\* C8: for an N-range list whose positions are in range, every index of every
\* range holds N after add_n_ranges, the sequence has grown by the sum of the
\* lengths, and without the characters at those indices it is the input.
C8_NRangesInserted ==
  (Returned("n_ranges", "add_lowercase") /\ NRangesInRange(n_ranges, PassInput)) =>
     /\ \A idx \in RangeIndices(n_ranges) : target_seq[idx + 1] = "N"
     /\ Len(target_seq) = Len(PassInput) + TotalLength(n_ranges, Count(n_ranges))
     /\ Without(target_seq, RangeIndices(n_ranges), 0) = PassInput
     /\ (n_ranges = <<1, 0, 2>> /\ PassInput = <<"A", "C", "G", "T">>) =>
          target_seq = <<"N", "N", "A", "C", "G", "T">>

C8_Witness ==
  /\ Returned("n_ranges", "add_lowercase")
  /\ NRangesInRange(n_ranges, PassInput)
  /\ Count(n_ranges) = 2
  /\ Length(n_ranges, 1) > 0 /\ Length(n_ranges, 2) > 0
  /\ Delta(n_ranges, 1) > 0 /\ Delta(n_ranges, 2) > 0

\* the state of the example of C8: the list 1 0 2 on ACGT gives NNACGT
C8_Example ==
  /\ Returned("n_ranges", "add_lowercase")
  /\ n_ranges = <<1, 0, 2>>
  /\ PassInput = <<"A", "C", "G", "T">>
  /\ target_seq = <<"N", "N", "A", "C", "G", "T">>

\* the special-character spec <<count, gap_1 .. gap_count, unique count,
\* value_0 .. value_(unique-1), ...>> and its order list
Gap(list, k) == list[1 + k]

UniqueCount(list) == list[Count(list) + 2]

DictionaryChar(list, d) == Chr(list[Count(list) + 3 + d] + 65)

\* positions[i], i from 0: gap_1 for i = 0, positions[i-1] + gap_(i+1) + 1 after
RECURSIVE Position(_, _)
Position(list, i) ==
  IF i = 0 THEN Gap(list, 1) ELSE Position(list, i - 1) + Gap(list, i + 1) + 1

\* count > 0, one order entry per occurrence, every order entry an index of
\* the dictionary, and every position inside the sequence as the insertions
\* before it have grown it
SpecialInRange(list, order, seq) ==
  /\ Count(list) > 0
  /\ Len(order) = Count(list)
  /\ Len(list) >= Count(list) + 2
  /\ Len(list) >= Count(list) + 2 + UniqueCount(list)
  /\ \A i \in 0..(Count(list) - 1) :
       /\ order[i + 1] \in 0..(UniqueCount(list) - 1)
       /\ Position(list, i) <= Len(seq) + i

SpecialPositionSet(list) == {Position(list, i) : i \in 0..(Count(list) - 1)}

\* C9: for a special-character spec with count > 0, one order entry per
\* occurrence and positions in range, after add_special_characters the
\* character at index positions[i] is dictionary[order[i]] for every
\* occurrence i, the sequence has grown by count characters, and without the
\* characters at those indices it is the input.
C9_SpecialsInserted ==
  (Returned("special", "add_n")
     /\ SpecialInRange(special_chars, special_chars_order, PassInput)) =>
     /\ \A i \in 0..(Count(special_chars) - 1) :
          target_seq[Position(special_chars, i) + 1] =
            DictionaryChar(special_chars, special_chars_order[i + 1])
     /\ Len(target_seq) = Len(PassInput) + Count(special_chars)
     /\ Without(target_seq, SpecialPositionSet(special_chars), 0) = PassInput

C9_Witness ==
  /\ Returned("special", "add_n")
  /\ SpecialInRange(special_chars, special_chars_order, PassInput)
  /\ Count(special_chars) = 2
  /\ Gap(special_chars, 1) > 0
  /\ special_chars_order = <<1, 0>>
  /\ Len(PassInput) = 4

UpperLetters ==
  <<"A", "B", "C", "D", "E", "F", "G", "H", "I", "J", "K", "L", "M",
    "N", "O", "P", "Q", "R", "S", "T", "U", "V", "W", "X", "Y", "Z">>

LowerLetters ==
  <<"a", "b", "c", "d", "e", "f", "g", "h", "i", "j", "k", "l", "m",
    "n", "o", "p", "q", "r", "s", "t", "u", "v", "w", "x", "y", "z">>

LowerForm(c) ==
  IF \E i \in 1..26 : UpperLetters[i] = c
  THEN LowerLetters[CHOOSE i \in 1..26 : UpperLetters[i] = c]
  ELSE c

\* every index of every range is an index of the sequence
LowercaseInRange(list, seq) ==
  /\ Len(list) >= 2 * Count(list) + 1
  /\ \A idx \in RangeIndices(list) : idx < Len(seq)

\* C10: add_lowercase_ranges, on ranges inside the sequence, keeps the length,
\* turns every character whose index lies in a range into its lowercase form
\* and leaves every other character as it was; 1 2 3 on AAAAAAAA gives
\* AAaaaAAA.
C10_LowercaseInPlace ==
  (Returned("lowercase", "write")
     /\ LowercaseInRange(lower_case_ranges, PassInput)) =>
     /\ Len(target_seq) = Len(PassInput)
     /\ \A idx \in 0..(Len(PassInput) - 1) :
          target_seq[idx + 1] =
            IF idx \in RangeIndices(lower_case_ranges)
            THEN LowerForm(PassInput[idx + 1])
            ELSE PassInput[idx + 1]
     /\ (lower_case_ranges = <<1, 2, 3>>
           /\ PassInput = <<"A", "A", "A", "A", "A", "A", "A", "A">>) =>
          target_seq = <<"A", "A", "a", "a", "a", "A", "A", "A">>

C10_Witness ==
  /\ Returned("lowercase", "write")
  /\ lower_case_ranges = <<1, 2, 3>>
  /\ PassInput = <<"A", "A", "A", "A", "A", "A", "A", "A">>
  /\ target_seq = <<"A", "A", "a", "a", "a", "A", "A", "A">>

(***************************************************************************)
(* Properties of main.                                                     *)
(***************************************************************************)
StageOrder ==
  <<"load_reference", "metadata", "edit_script", "replay", "special",
    "n_ranges", "lowercase", "write">>

\* C6: the stages are entered in the order load reference, parse metadata,
\* parse edit script, replay, special characters, N-ranges, lowercase, write,
\* each at most once, and all of them once main has finished; an overlay pass
\* is entered only when the replay has consumed the whole edit script.
C6_StagesInOrder ==
  /\ Len(h_stages) <= Len(StageOrder)
  /\ h_stages = SubSeq(StageOrder, 1, Len(h_stages))
  /\ pc = "done" => h_stages = StageOrder
  /\ Entered("special") => mm_idx = Len(mismatch_data)

C6_Witness ==
  /\ pc = "done"
  /\ Len(mismatch_data) = 2
  /\ special_chars[1] > 0 /\ n_ranges[1] > 0 /\ lower_case_ranges[1] > 0

====
